---- MODULE Spec2Model ----
(***************************************************************************)
(* A model of jug (github.com/cfichtmueller/jug), a thin layer over the    *)
(* gin HTTP engine:                                                        *)
(*   - the Validator, a chainable accumulator of failure messages;         *)
(*   - the Engine / RouterGroup wrappers with their PathRegistry and       *)
(*     ExpandMethods;                                                      *)
(*   - the JSON binding helpers of the request Context.                    *)
(* Strings whose content matters (messages, error texts, validated values) *)
(* are sequences of one-character strings, so that length, concatenation   *)
(* and formatting are computed as the Go code computes them.               *)
(***************************************************************************)
EXTENDS Integers, Sequences, FiniteSets, TLC

VARIABLES
    v,          \* the Validator: [errors, appended]
    vres,       \* the error returned by the last Validate() call
    vcall,      \* the last call made on the Validator, with its arguments
    nChecks,    \* number of calls made on the Validator so far
    ctx,        \* the request Context: [responses, validateCalls, validatorCalls]
    bret,       \* what the last bind call returned
    bcall,      \* the last bind call, with its arguments
    nBinds,     \* number of bind calls made on the Context so far
    groups,     \* the router groups created so far: [parent, base]; 0 is the engine
    registry,   \* the PathRegistry of the engine (0) and of every group
    routes,     \* the wrapped engine's routes: <<path, method>> -> handler
    panic,      \* the panic of the wrapped engine that ended the program, if any
    direct,     \* per router, what its callers registered on it directly
    rcall,      \* the last call made on the engine or a router
    nRoutes,    \* number of registration calls made by the callers so far
    ectx,       \* the Context on which HandleError is called: [responses, ...]
    ecall,      \* the last HandleError call, with the error handed to it
    nHandled,   \* number of HandleError calls made on the Context so far
    preg,       \* a PathRegistry used on its own
    adds,       \* the Add calls made on preg so far, in order
    pres,       \* what the last Get, Paths or expandMethods on preg returned
    pcall,      \* the last call on preg, with its arguments
    qres,       \* what the last query helper returned: [val, err]
    qcall,      \* the last query helper call, with the request's parameter
    mres,       \* what the last MapMany or MapManyE returned: [res, err]
    mcalls,     \* the elements m was called on during that call, in order
    mcall       \* the last MapMany or MapManyE call, with its arguments

validatorVars == <<v, vres, vcall, nChecks>>

bindVars == <<ctx, bret, bcall, nBinds>>

routerVars == <<groups, registry, routes, panic, direct, rcall, nRoutes>>

errorVars == <<ectx, ecall, nHandled>>

registryVars == <<preg, adds, pres, pcall>>

queryVars == <<qres, qcall>>

mapVars == <<mres, mcalls, mcall>>

vars == <<v, vres, vcall, nChecks, ctx, bret, bcall, nBinds,
          groups, registry, routes, panic, direct, rcall, nRoutes,
          ectx, ecall, nHandled, preg, adds, pres, pcall, qres, qcall,
          mres, mcalls, mcall>>

\* what the actions of one component leave alone
notValidatorVars ==
    <<bindVars, routerVars, errorVars, registryVars, queryVars, mapVars>>

notBindVars ==
    <<validatorVars, routerVars, errorVars, registryVars, queryVars, mapVars>>

notRouterVars ==
    <<validatorVars, bindVars, errorVars, registryVars, queryVars, mapVars>>

notErrorVars ==
    <<validatorVars, bindVars, routerVars, registryVars, queryVars, mapVars>>

notQueryVars ==
    <<validatorVars, bindVars, routerVars, errorVars, registryVars, mapVars>>

notMapVars ==
    <<validatorVars, bindVars, routerVars, errorVars, registryVars, queryVars>>

notRegistryVars ==
    <<validatorVars, bindVars, routerVars, errorVars, queryVars, mapVars>>

----------------------------------------------------------------------------
(* Bounds of the model *)

\* calls chained on one Validator
MaxChecks == 3
\* largest max passed to RequireMaxLength
MaxLenArg == 3
\* bind calls made on one Context
MaxBinds == 2
\* router groups created on one engine
MaxGroups == 2
\* HandleError calls made on one Context
MaxHandled == 2
\* Add calls made on one PathRegistry
MaxAdds == 3
\* elements of a slice handed to MapMany and MapManyE
MaxItems == 3
\* registration calls made by the callers of one engine
MaxRoutes == 2

----------------------------------------------------------------------------
(* Go values *)

\* a nil error
NilErr == [isNil |-> TRUE, text |-> <<>>]

\* a non-nil error whose Error() is text
Err(text) == [isNil |-> FALSE, text |-> text]

Range(seq) == {seq[i] : i \in 1..Len(seq)}

----------------------------------------------------------------------------
(* fmt.Errorf(format) with no operands, as Validate calls it. *)

Flags == {"#", "0", "+", "-", " "}

Digits == {"0", "1", "2", "3", "4", "5", "6", "7", "8", "9"}

\* "%!(NOVERB)": a '%' with nothing after it
NoVerb == <<"%", "!", "(", "N", "O", "V", "E", "R", "B", ")">>

\* "%!c(MISSING)": verb c with no operand left
Missing(verb) == <<"%", "!", verb, "(", "M", "I", "S", "S", "I", "N", "G", ")">>

RECURSIVE SkipWhile(_, _, _)
SkipWhile(f, i, set) ==
    IF i <= Len(f) /\ f[i] \in set THEN SkipWhile(f, i + 1, set) ELSE i

RECURSIVE ErrorfFrom(_, _)
ErrorfFrom(f, i) ==
    IF i > Len(f) THEN <<>>
    ELSE IF f[i] # "%" THEN <<f[i]>> \o ErrorfFrom(f, i + 1)
    ELSE LET afterFlags == SkipWhile(f, i + 1, Flags)
             afterWidth == SkipWhile(f, afterFlags, Digits)
             afterPrec  == IF afterWidth <= Len(f) /\ f[afterWidth] = "."
                           THEN SkipWhile(f, afterWidth + 1, Digits)
                           ELSE afterWidth
         IN  IF afterPrec > Len(f) THEN NoVerb
             ELSE IF f[afterPrec] = "%"
                  THEN <<"%">> \o ErrorfFrom(f, afterPrec + 1)
                  ELSE Missing(f[afterPrec]) \o ErrorfFrom(f, afterPrec + 1)

\* the text of fmt.Errorf(format)
Errorf(format) == ErrorfFrom(format, 1)

----------------------------------------------------------------------------
(* Validator *)

\* ", "
Sep == <<",", " ">>

\* NewValidator(): an empty builder. appended is the history of the
\* messages handed to append, kept beside the builder.
NewValidator == [errors |-> <<>>, appended |-> <<>>]

\* append forgetting the messages recorded before
appendOverwrite(val, msg) ==
    [errors |-> msg, appended |-> <<msg>>]

\* (v *Validator) append(msg)
append(val, msg) ==
    [errors   |-> (IF Len(val.errors) > 0 THEN val.errors \o Sep ELSE val.errors) \o msg,
     appended |-> Append(val.appended, msg)]

\* (v *Validator) Require(condition, message)
Require(val, condition, message) ==
    IF ~condition THEN append(val, message) ELSE val

\* fun(v) for a fun that chains the Require calls listed in fun, from index i
RECURSIVE ApplyFun(_, _, _)
ApplyFun(val, fun, i) ==
    IF i > Len(fun) THEN val
    ELSE ApplyFun(Require(val, fun[i].condition, fun[i].message), fun, i + 1)

\* (v *Validator) V(fun)
V(val, fun) == ApplyFun(val, fun, 1)

\* the loop of RequireEnum over values, from index i: TRUE iff it returns
\* early on s == value
RECURSIVE EnumLoop(_, _, _)
EnumLoop(s, values, i) ==
    IF i > Len(values) THEN FALSE
    ELSE IF s = values[i] THEN TRUE
    ELSE EnumLoop(s, values, i + 1)

\* RequireEnum without its early return on an empty s
RequireEnumNoEmptyCheck(val, s, message, values) ==
    IF EnumLoop(s, values, 1) THEN val ELSE append(val, message)

\* (v *Validator) RequireEnum(s, message, values...)
RequireEnum(val, s, message, values) ==
    IF Len(s) = 0 THEN val
    ELSE IF EnumLoop(s, values, 1) THEN val
    ELSE append(val, message)

\* (v *Validator) RequireSliceMinLength(s, min, message)
RequireSliceMinLength(val, s, min, message) ==
    IF Len(s) < min THEN append(val, message) ELSE val

\* RequireStringSliceMinLength always comparing with a minimum of 1
RequireStringSliceMinLengthOne(val, s, min, message) ==
    RequireSliceMinLength(val, s, 1, message)

\* (v *Validator) RequireStringSliceMinLength(s, min, message), deprecated
RequireStringSliceMinLength(val, s, min, message) ==
    RequireSliceMinLength(val, s, min, message)

\* (v *Validator) RequireSliceNotEmpty(s, message)
RequireSliceNotEmpty(val, s, message) ==
    IF Len(s) = 0 THEN append(val, message) ELSE val

\* (v *Validator) RequireStringSliceNotEmpty(s, message), deprecated
RequireStringSliceNotEmpty(val, s, message) ==
    RequireSliceNotEmpty(val, s, message)

\* m of RequireSliceEnum after its first loop: the keys set to true
SliceEnumMap(values) == Range(values)

\* the second loop of RequireSliceEnum over s, from index i: the validator
\* it returns
RECURSIVE SliceEnumLoop(_, _, _, _, _)
SliceEnumLoop(val, s, message, m, i) ==
    IF i > Len(s) THEN val
    ELSE IF s[i] \notin m THEN append(val, message)
    ELSE SliceEnumLoop(val, s, message, m, i + 1)

\* the second loop of RequireSliceEnum going on after an append
RECURSIVE SliceEnumLoopNoReturn(_, _, _, _, _)
SliceEnumLoopNoReturn(val, s, message, m, i) ==
    IF i > Len(s) THEN val
    ELSE SliceEnumLoopNoReturn(IF s[i] \notin m THEN append(val, message) ELSE val,
                               s, message, m, i + 1)

\* RequireSliceEnum recording message for every element outside values
RequireSliceEnumEach(val, s, message, values) ==
    IF Len(s) = 0 THEN val
    ELSE SliceEnumLoopNoReturn(val, s, message, SliceEnumMap(values), 1)

\* (v *Validator) RequireSliceEnum(s, message, values...)
RequireSliceEnum(val, s, message, values) ==
    IF Len(s) = 0 THEN val
    ELSE SliceEnumLoop(val, s, message, SliceEnumMap(values), 1)

\* (v *Validator) RequireStringSliceEnum(s, message, values...), deprecated
RequireStringSliceEnum(val, s, message, values) ==
    RequireSliceEnum(val, s, message, values)

\* regex.MatchString(s), a regex standing for the set of strings it matches
MatchString(regex, s) == s \in regex

\* (v *Validator) RequireMatchesRegex(s, regex, message)
RequireMatchesRegex(val, s, regex, message) ==
    IF Len(s) > 0 /\ ~MatchString(regex, s) THEN append(val, message) ELSE val

\* RequireMinLength leaving the empty string alone
RequireMinLengthSkipEmpty(val, s, min, message) ==
    Require(val, Len(s) = 0 \/ Len(s) >= min, message)

\* (v *Validator) RequireMinLength(s, min, message)
RequireMinLength(val, s, min, message) ==
    Require(val, Len(s) >= min, message)

\* (v *Validator) RequireStringMinLength(s, min, message), deprecated
RequireStringMinLength(val, s, min, message) ==
    RequireMinLength(val, s, min, message)

\* (v *Validator) RequireNotEmpty(s, message)
RequireNotEmpty(val, s, message) ==
    Require(val, Len(s) > 0, message)

\* (v *Validator) RequireStringNotEmpty(s, message), deprecated
RequireStringNotEmpty(val, s, message) ==
    RequireNotEmpty(val, s, message)

\* (v *Validator) RequireStringLengthBetween(s, min, max, message)
RequireStringLengthBetween(val, s, min, max, message) ==
    Require(val, Len(s) >= min /\ Len(s) < max, message)

\* (v *Validator) RequireMaxLength(s, max, message)
RequireMaxLength(val, s, max, message) ==
    Require(val, Len(s) < max, message)

\* (v *Validator) RequireStringMaxLength(s, max, message), deprecated
RequireStringMaxLength(val, s, max, message) ==
    RequireMaxLength(val, s, max, message)

DigitChars == <<"0", "1", "2", "3", "4", "5", "6", "7", "8", "9">>

\* %d of a non-negative n
RECURSIVE FormatInt(_)
FormatInt(n) ==
    IF n < 10 THEN <<DigitChars[n + 1]>>
    ELSE FormatInt(n \div 10) \o <<DigitChars[(n % 10) + 1]>>

\* fmt.Sprintf("%s[%d]: %s", key, i, text)
SubMessage(key, i, text) ==
    key \o <<"[">> \o FormatInt(i) \o <<"]", ":", " ">> \o text

\* ValidateSub stopping at the first item that fails
RECURSIVE ValidateSubFirstOnly(_, _, _, _)
ValidateSubFirstOnly(val, key, items, i) ==
    IF i >= Len(items) THEN val
    ELSE IF ~items[i + 1].isNil
    THEN append(val, SubMessage(key, i, items[i + 1].text))
    ELSE ValidateSubFirstOnly(val, key, items, i + 1)

\* ValidateSub(v, key, items), from index i of items on; an item stands for
\* what its Validate() returns
RECURSIVE ValidateSub(_, _, _, _)
ValidateSub(val, key, items, i) ==
    IF i >= Len(items) THEN val
    ELSE ValidateSub(IF ~items[i + 1].isNil
                     THEN append(val, SubMessage(key, i, items[i + 1].text))
                     ELSE val,
                     key, items, i + 1)

\* (v *Validator) Validate()
Validate(val) ==
    IF Len(val.errors) > 0 THEN Err(Errorf(val.errors)) ELSE NilErr

----------------------------------------------------------------------------
(* Inputs of the Validator's callers *)

\* messages: "", "m", "n", "5%"
Msgs == {<<>>, <<"m">>, <<"n">>, <<"5", "%">>}

\* validated strings: "", "a", "ab", "abc"
Strs == {<<>>, <<"a">>, <<"a", "b">>, <<"a", "b", "c">>}

\* enum values: (), ("a"), ("ab", "a"), ("", "ab")
EnumValues == {<<>>, << <<"a">> >>, << <<"a", "b">>, <<"a">> >>, << <<>>, <<"a", "b">> >>}

\* messages of the length, slice and regex checks: "", "m"
CheckMsgs == {<<>>, <<"m">>}

\* validated slices: (), ("a"), ("a", "ab"), ("c", "a", "c")
Slices == {<<>>, << <<"a">> >>, << <<"a">>, <<"a", "b">> >>,
           << <<"c">>, <<"a">>, <<"c">> >>}

\* regular expressions, each as the strings of Strs it matches:
\* ^b, ^a$, ^(ab)?$
Regexes == {{}, {<<"a">>}, {<<>>, <<"a", "b">>}}

\* validation functions handed to V: no check; one failing Require; a
\* passing and a failing one
Funs == {<<>>,
         <<[condition |-> FALSE, message |-> <<"m">>]>>,
         <<[condition |-> TRUE, message |-> <<"m">>],
           [condition |-> FALSE, message |-> <<"n">>]>>}

\* keys handed to ValidateSub: "k", "ab"
SubKeys == {<<"k">>, <<"a", "b">>}

\* items handed to ValidateSub, each as the error its Validate() returns:
\* none; valid; "e"; valid, "e"; "e", valid, "f"; valid, valid; ""
SubItems ==
    {<<>>, <<NilErr>>, <<Err(<<"e">>)>>, <<NilErr, Err(<<"e">>)>>,
     <<Err(<<"e">>), NilErr, Err(<<"f">>)>>, <<NilErr, NilErr>>, <<Err(<<>>)>>}

NoCall == [op |-> "new"]

ValidatorInit ==
    /\ v = NewValidator
    /\ vres = NilErr
    /\ vcall = NoCall
    /\ nChecks = 0

DoRequire ==
    /\ nChecks < MaxChecks
    /\ \E condition \in BOOLEAN, message \in Msgs :
        /\ v' = Require(v, condition, message)
        /\ vcall' = [op |-> "Require", condition |-> condition, message |-> message, pre |-> v]
    /\ nChecks' = nChecks + 1
    /\ UNCHANGED <<vres, notValidatorVars>>

DoRequireEnum ==
    /\ nChecks < MaxChecks
    /\ \E s \in Strs, message \in Msgs, values \in EnumValues :
        /\ v' = RequireEnum(v, s, message, values)
        /\ vcall' = [op |-> "RequireEnum", s |-> s, message |-> message,
                     values |-> values, pre |-> v]
    /\ nChecks' = nChecks + 1
    /\ UNCHANGED <<vres, notValidatorVars>>

DoRequireMaxLength ==
    /\ nChecks < MaxChecks
    /\ \E s \in Strs, max \in 0..MaxLenArg, message \in Msgs :
        /\ v' = RequireMaxLength(v, s, max, message)
        /\ vcall' = [op |-> "RequireMaxLength", s |-> s, max |-> max,
                     message |-> message, pre |-> v]
    /\ nChecks' = nChecks + 1
    /\ UNCHANGED <<vres, notValidatorVars>>

DoRequireStringMaxLength ==
    /\ nChecks < MaxChecks
    /\ \E s \in Strs, max \in 0..MaxLenArg, message \in Msgs :
        /\ v' = RequireStringMaxLength(v, s, max, message)
        /\ vcall' = [op |-> "RequireStringMaxLength", s |-> s, max |-> max,
                     message |-> message, pre |-> v]
    /\ nChecks' = nChecks + 1
    /\ UNCHANGED <<vres, notValidatorVars>>

DoRequireMinLength ==
    /\ nChecks < MaxChecks
    /\ \E s \in Strs, min \in 0..MaxLenArg, message \in CheckMsgs :
        /\ v' = RequireMinLength(v, s, min, message)
        /\ vcall' = [op |-> "RequireMinLength", s |-> s, min |-> min, message |-> message,
                     pre |-> v]
    /\ nChecks' = nChecks + 1
    /\ UNCHANGED <<vres, notValidatorVars>>

DoRequireStringMinLength ==
    /\ nChecks < MaxChecks
    /\ \E s \in Strs, min \in 0..MaxLenArg, message \in CheckMsgs :
        /\ v' = RequireStringMinLength(v, s, min, message)
        /\ vcall' = [op |-> "RequireStringMinLength", s |-> s, min |-> min, message |-> message,
                     pre |-> v]
    /\ nChecks' = nChecks + 1
    /\ UNCHANGED <<vres, notValidatorVars>>

DoRequireNotEmpty ==
    /\ nChecks < MaxChecks
    /\ \E s \in Strs, message \in CheckMsgs :
        /\ v' = RequireNotEmpty(v, s, message)
        /\ vcall' = [op |-> "RequireNotEmpty", s |-> s, message |-> message,
                     pre |-> v]
    /\ nChecks' = nChecks + 1
    /\ UNCHANGED <<vres, notValidatorVars>>

DoRequireStringNotEmpty ==
    /\ nChecks < MaxChecks
    /\ \E s \in Strs, message \in CheckMsgs :
        /\ v' = RequireStringNotEmpty(v, s, message)
        /\ vcall' = [op |-> "RequireStringNotEmpty", s |-> s, message |-> message,
                     pre |-> v]
    /\ nChecks' = nChecks + 1
    /\ UNCHANGED <<vres, notValidatorVars>>

DoRequireStringLengthBetween ==
    /\ nChecks < MaxChecks
    /\ \E s \in Strs, min \in 0..MaxLenArg, max \in {2, MaxLenArg}, message \in CheckMsgs :
        /\ v' = RequireStringLengthBetween(v, s, min, max, message)
        /\ vcall' = [op |-> "RequireStringLengthBetween", s |-> s, min |-> min, max |-> max, message |-> message,
                     pre |-> v]
    /\ nChecks' = nChecks + 1
    /\ UNCHANGED <<vres, notValidatorVars>>

DoRequireMatchesRegex ==
    /\ nChecks < MaxChecks
    /\ \E s \in Strs, regex \in Regexes, message \in CheckMsgs :
        /\ v' = RequireMatchesRegex(v, s, regex, message)
        /\ vcall' = [op |-> "RequireMatchesRegex", s |-> s, regex |-> regex, message |-> message,
                     pre |-> v]
    /\ nChecks' = nChecks + 1
    /\ UNCHANGED <<vres, notValidatorVars>>

DoRequireSliceMinLength ==
    /\ nChecks < MaxChecks
    /\ \E s \in Slices, min \in 0..MaxLenArg, message \in CheckMsgs :
        /\ v' = RequireSliceMinLength(v, s, min, message)
        /\ vcall' = [op |-> "RequireSliceMinLength", s |-> s, min |-> min, message |-> message,
                     pre |-> v]
    /\ nChecks' = nChecks + 1
    /\ UNCHANGED <<vres, notValidatorVars>>

DoRequireStringSliceMinLength ==
    /\ nChecks < MaxChecks
    /\ \E s \in Slices, min \in 0..MaxLenArg, message \in CheckMsgs :
        /\ v' = RequireStringSliceMinLength(v, s, min, message)
        /\ vcall' = [op |-> "RequireStringSliceMinLength", s |-> s, min |-> min, message |-> message,
                     pre |-> v]
    /\ nChecks' = nChecks + 1
    /\ UNCHANGED <<vres, notValidatorVars>>

DoRequireSliceNotEmpty ==
    /\ nChecks < MaxChecks
    /\ \E s \in Slices, message \in CheckMsgs :
        /\ v' = RequireSliceNotEmpty(v, s, message)
        /\ vcall' = [op |-> "RequireSliceNotEmpty", s |-> s, message |-> message,
                     pre |-> v]
    /\ nChecks' = nChecks + 1
    /\ UNCHANGED <<vres, notValidatorVars>>

DoRequireStringSliceNotEmpty ==
    /\ nChecks < MaxChecks
    /\ \E s \in Slices, message \in CheckMsgs :
        /\ v' = RequireStringSliceNotEmpty(v, s, message)
        /\ vcall' = [op |-> "RequireStringSliceNotEmpty", s |-> s, message |-> message,
                     pre |-> v]
    /\ nChecks' = nChecks + 1
    /\ UNCHANGED <<vres, notValidatorVars>>

DoRequireSliceEnum ==
    /\ nChecks < MaxChecks
    /\ \E s \in Slices, message \in CheckMsgs, values \in EnumValues :
        /\ v' = RequireSliceEnum(v, s, message, values)
        /\ vcall' = [op |-> "RequireSliceEnum", s |-> s, message |-> message, values |-> values,
                     pre |-> v]
    /\ nChecks' = nChecks + 1
    /\ UNCHANGED <<vres, notValidatorVars>>

DoRequireStringSliceEnum ==
    /\ nChecks < MaxChecks
    /\ \E s \in Slices, message \in CheckMsgs, values \in EnumValues :
        /\ v' = RequireStringSliceEnum(v, s, message, values)
        /\ vcall' = [op |-> "RequireStringSliceEnum", s |-> s, message |-> message, values |-> values,
                     pre |-> v]
    /\ nChecks' = nChecks + 1
    /\ UNCHANGED <<vres, notValidatorVars>>

DoV ==
    /\ nChecks < MaxChecks
    /\ \E fun \in Funs :
        /\ v' = V(v, fun)
        /\ vcall' = [op |-> "V", fun |-> fun,
                     pre |-> v]
    /\ nChecks' = nChecks + 1
    /\ UNCHANGED <<vres, notValidatorVars>>

DoValidateSub ==
    /\ nChecks < MaxChecks
    /\ \E key \in SubKeys, items \in SubItems :
        /\ v' = ValidateSub(v, key, items, 0)
        /\ vcall' = [op |-> "ValidateSub", key |-> key, items |-> items, pre |-> v]
    /\ nChecks' = nChecks + 1
    /\ UNCHANGED <<vres, notValidatorVars>>

DoValidate ==
    /\ vres' = Validate(v)
    /\ vcall' = [op |-> "Validate", pre |-> v, after |-> vcall.op, prev |-> vres]
    /\ UNCHANGED <<v, nChecks, notValidatorVars>>

NextValidator ==
    \/ DoRequire
    \/ DoRequireEnum
    \/ DoRequireMaxLength
    \/ DoRequireStringMaxLength
    \/ DoValidate

\* the length, slice and regex checks, V and Validate on one Validator
NextChecks ==
    \/ DoRequireMinLength
    \/ DoRequireStringMinLength
    \/ DoRequireNotEmpty
    \/ DoRequireStringNotEmpty
    \/ DoRequireStringLengthBetween
    \/ DoRequireMatchesRegex
    \/ DoRequireSliceMinLength
    \/ DoRequireStringSliceMinLength
    \/ DoRequireSliceNotEmpty
    \/ DoRequireStringSliceNotEmpty
    \/ DoRequireSliceEnum
    \/ DoRequireStringSliceEnum
    \/ DoV
    \/ DoRequireStringMaxLength
    \/ DoValidate

\* Require, ValidateSub and Validate on one Validator
NextSub ==
    \/ DoRequire
    \/ DoValidateSub
    \/ DoValidate

----------------------------------------------------------------------------
(* Context: binding the request body from JSON *)

\* http.StatusBadRequest
StatusBadRequest == 400

\* errors of the binding layer; their texts are opaque
nilError == [isNil |-> TRUE, text |-> ""]

NewError(text) == [isNil |-> FALSE, text |-> text]

\* io.EOF
EOF == NewError("EOF")

\* a Context on which nothing was written; validateCalls counts the
\* invocations of the bound object's Validate(), validatorCalls those of
\* the validator function of a bind call
NewContext == [responses |-> <<>>, validateCalls |-> 0, validatorCalls |-> 0]

\* c.ShouldBindJSON(obj) of the wrapped engine: io.EOF on an empty body, the
\* decoder's error on a body that cannot be bound, nil otherwise
ShouldBindJSON(body) ==
    CASE body = "empty"     -> EOF
      [] body = "malformed" -> NewError("invalid character")
      [] OTHER              -> nilError

\* (w *contextWrapper) respondE(status, err)
respondE(c, status, err) ==
    [c EXCEPT !.responses = Append(@, [status |-> status, body |-> [error |-> err.text]])]

\* (w *contextWrapper) RespondBadRequestE(err)
RespondBadRequestE(c, err) == respondE(c, StatusBadRequest, err)

\* (w *contextWrapper) RespondMissingRequestBody()
RespondMissingRequestBody(c) ==
    RespondBadRequestE(c, NewError("request body is missing"))

\* val, ok := obj.(Validatable); if ok { return val.Validate() }; return nil
ValidateIfValidatable(c, obj) ==
    IF obj.validatable
    THEN [err |-> obj.err, c |-> [c EXCEPT !.validateCalls = @ + 1]]
    ELSE [err |-> nilError, c |-> c]

\* validator(): the closure of MayBindJSON / MustBindJSON, or the
\* caller's function, which returns validator.err
CallValidator(c, obj, validator) ==
    LET called == [c EXCEPT !.validatorCalls = @ + 1]
    IN  IF validator.kind = "closure" THEN ValidateIfValidatable(called, obj)
        ELSE [err |-> validator.err, c |-> called]

\* MayBindJSONV answering an empty body as MustBindJSONV does
MayBindJSONVEofFails(c, body, obj, validator) ==
    LET err == ShouldBindJSON(body)
        r   == CallValidator(c, obj, validator)
    IN  IF ~err.isNil
        THEN IF err = EOF
             THEN [ret |-> FALSE, c |-> RespondMissingRequestBody(c)]
             ELSE [ret |-> FALSE, c |-> RespondBadRequestE(c, err)]
        ELSE IF ~r.err.isNil
             THEN [ret |-> FALSE, c |-> RespondBadRequestE(r.c, r.err)]
             ELSE [ret |-> TRUE, c |-> r.c]

\* MayBindJSONV going on after the response to a validator error
MayBindJSONVNoReturn(c, body, obj, validator) ==
    LET err == ShouldBindJSON(body)
        r   == CallValidator(c, obj, validator)
    IN  IF ~err.isNil
        THEN IF err = EOF
             THEN [ret |-> TRUE, c |-> c]
             ELSE [ret |-> FALSE, c |-> RespondBadRequestE(c, err)]
        ELSE IF ~r.err.isNil
             THEN [ret |-> TRUE, c |-> RespondBadRequestE(r.c, r.err)]
             ELSE [ret |-> TRUE, c |-> r.c]

\* (w *contextWrapper) MayBindJSONV(obj, validator)
MayBindJSONV(c, body, obj, validator) ==
    LET err == ShouldBindJSON(body)
        r   == CallValidator(c, obj, validator)
    IN  IF ~err.isNil
        THEN IF err = EOF
             THEN [ret |-> TRUE, c |-> c]
             ELSE [ret |-> FALSE, c |-> RespondBadRequestE(c, err)]
        ELSE IF ~r.err.isNil
             THEN [ret |-> FALSE, c |-> RespondBadRequestE(r.c, r.err)]
             ELSE [ret |-> TRUE, c |-> r.c]

\* (w *contextWrapper) MayBindJSON(obj)
MayBindJSON(c, body, obj) ==
    MayBindJSONV(c, body, obj, [kind |-> "closure"])

\* MustBindJSONV without its own check of a Validatable obj
MustBindJSONVNoValidate(c, body, obj, validator) ==
    LET err == ShouldBindJSON(body)
        r   == CallValidator(c, obj, validator)
    IN  IF ~err.isNil
        THEN IF err = EOF
             THEN [ret |-> FALSE, c |-> RespondMissingRequestBody(c)]
             ELSE [ret |-> FALSE, c |-> RespondBadRequestE(c, err)]
        ELSE IF ~r.err.isNil
             THEN [ret |-> FALSE, c |-> RespondBadRequestE(r.c, r.err)]
             ELSE [ret |-> TRUE, c |-> r.c]

\* (w *contextWrapper) MustBindJSONV(obj, validator)
MustBindJSONV(c, body, obj, validator) ==
    LET err == ShouldBindJSON(body)
        r   == CallValidator(c, obj, validator)
        r2  == ValidateIfValidatable(r.c, obj)
    IN  IF ~err.isNil
        THEN IF err = EOF
             THEN [ret |-> FALSE, c |-> RespondMissingRequestBody(c)]
             ELSE [ret |-> FALSE, c |-> RespondBadRequestE(c, err)]
        ELSE IF ~r.err.isNil
             THEN [ret |-> FALSE, c |-> RespondBadRequestE(r.c, r.err)]
             ELSE IF ~r2.err.isNil
                  THEN [ret |-> FALSE, c |-> RespondBadRequestE(r2.c, r2.err)]
                  ELSE [ret |-> TRUE, c |-> r2.c]

\* (w *contextWrapper) MustBindJSON(obj)
MustBindJSON(c, body, obj) ==
    MustBindJSONV(c, body, obj, [kind |-> "closure"])

----------------------------------------------------------------------------
(* Inputs of the bind calls *)

\* request bodies
Bodies == {"empty", "malformed", "valid"}

\* bound objects: one that is not Validatable, and Validatable ones whose
\* Validate() returns nil or an error once bound
Objs == {[validatable |-> FALSE, err |-> nilError],
         [validatable |-> TRUE, err |-> nilError],
         [validatable |-> TRUE, err |-> NewError("name is required")]}

\* validator functions handed to the *V calls
Validators == {[kind |-> "func", err |-> nilError],
               [kind |-> "func", err |-> NewError("invalid role")]}

BindInit ==
    /\ ctx = NewContext
    /\ bret = TRUE
    /\ bcall = NoCall
    /\ nBinds = 0

DoMayBindJSON ==
    /\ nBinds < MaxBinds
    /\ \E body \in Bodies, obj \in Objs :
        LET r == MayBindJSON(ctx, body, obj)
        IN  /\ ctx' = r.c
            /\ bret' = r.ret
            /\ bcall' = [op |-> "MayBindJSON", body |-> body, obj |-> obj,
                         validator |-> [kind |-> "closure"], pre |-> ctx]
    /\ nBinds' = nBinds + 1
    /\ UNCHANGED notBindVars

DoMayBindJSONV ==
    /\ nBinds < MaxBinds
    /\ \E body \in Bodies, obj \in Objs, validator \in Validators :
        LET r == MayBindJSONV(ctx, body, obj, validator)
        IN  /\ ctx' = r.c
            /\ bret' = r.ret
            /\ bcall' = [op |-> "MayBindJSONV", body |-> body, obj |-> obj,
                         validator |-> validator, pre |-> ctx]
    /\ nBinds' = nBinds + 1
    /\ UNCHANGED notBindVars

DoMustBindJSON ==
    /\ nBinds < MaxBinds
    /\ \E body \in Bodies, obj \in Objs :
        LET r == MustBindJSON(ctx, body, obj)
        IN  /\ ctx' = r.c
            /\ bret' = r.ret
            /\ bcall' = [op |-> "MustBindJSON", body |-> body, obj |-> obj,
                         validator |-> [kind |-> "closure"], pre |-> ctx]
    /\ nBinds' = nBinds + 1
    /\ UNCHANGED notBindVars

DoMustBindJSONV ==
    /\ nBinds < MaxBinds
    /\ \E body \in Bodies, obj \in Objs, validator \in Validators :
        LET r == MustBindJSONV(ctx, body, obj, validator)
        IN  /\ ctx' = r.c
            /\ bret' = r.ret
            /\ bcall' = [op |-> "MustBindJSONV", body |-> body, obj |-> obj,
                         validator |-> validator, pre |-> ctx]
    /\ nBinds' = nBinds + 1
    /\ UNCHANGED notBindVars

NextBind ==
    \/ DoMayBindJSON
    \/ DoMayBindJSONV
    \/ DoMustBindJSON
    \/ DoMustBindJSONV

----------------------------------------------------------------------------
(* PathRegistry: path -> set of methods (the keys of the inner map) *)

\* NewPathRegistry()
NewPathRegistry == <<>>

\* Add putting the methods in place of the ones recorded for the path
AddReplace(reg, path, methods) ==
    LET withEntry == IF path \in DOMAIN reg THEN reg ELSE reg @@ (path :> {})
    IN  [withEntry EXCEPT ![path] = Range(methods)]

\* (p *PathRegistry) Add(path, methods...)
Add(reg, path, methods) ==
    LET withEntry == IF path \in DOMAIN reg THEN reg ELSE reg @@ (path :> {})
    IN  [withEntry EXCEPT ![path] = @ \cup Range(methods)]

\* Get that looks at the path only
GetPathOnly(reg, path, method) == path \in DOMAIN reg

\* (p *PathRegistry) Get(path, method)
Get(reg, path, method) ==
    IF path \notin DOMAIN reg THEN FALSE ELSE method \in reg[path]

\* the orders in which ranging over a Go map may yield the keys in set
Orders(set) ==
    {s \in [1..Cardinality(set) -> set] : \A i, j \in 1..Cardinality(set) : s[i] = s[j] => i = j}

\* Paths leaving out the paths that have no method
PathsNonEmpty(reg) == Orders({path \in DOMAIN reg : reg[path] # {}})

\* (p *PathRegistry) Paths(): the paths, in one of the orders of the map
Paths(reg) == Orders(DOMAIN reg)

----------------------------------------------------------------------------
(* Engine, RouterGroup and the Router returned by their methods.           *)
(* A path is a sequence of segments: <<"api", "x">> is /api/x.  The state  *)
(* of an engine is threaded through the operators as S = [registry,        *)
(* routes, panic].                                                         *)

\* the verbs ExpandMethods expands, in the order of its checks
Methods == <<"GET", "POST", "PUT", "DELETE", "PATCH", "OPTIONS", "HEAD">>

\* the methods the wrapped engine's Any registers
AnyMethods == <<"GET", "POST", "PUT", "PATCH", "HEAD", "OPTIONS", "DELETE", "CONNECT", "TRACE">>

NoPanic == [set |-> FALSE]

Routers == 0..Len(groups)

\* the absolute path of the wrapped group behind router r
Base(r) == IF r = 0 THEN <<>> ELSE groups[r].base

\* r.groups: the groups created on router r, in the order of their creation
RECURSIVE ChildrenFrom(_, _)
ChildrenFrom(r, i) ==
    IF i > Len(groups) THEN <<>>
    ELSE (IF groups[i].parent = r THEN <<i>> ELSE <<>>) \o ChildrenFrom(r, i + 1)

Children(r) == ChildrenFrom(r, 1)

\* the wrapped engine registers handler for method on the group's path:
\* a second handler on a <<path, method>> that has one makes it panic
ginHandle(S, r, method, relativePath, handler, by) ==
    LET key == <<Base(r) \o relativePath, method>>
    IN  IF S.panic.set THEN S
        ELSE IF key \in DOMAIN S.routes
        THEN [S EXCEPT !.panic = [set |-> TRUE, by |-> by, path |-> key[1], method |-> method]]
        ELSE [S EXCEPT !.routes = @ @@ (key :> handler)]

\* the wrapped engine's Any: one registration per method of AnyMethods
RECURSIVE ginAny(_, _, _, _, _, _)
ginAny(S, r, relativePath, handler, by, i) ==
    IF i > Len(AnyMethods) THEN S
    ELSE ginAny(ginHandle(S, r, AnyMethods[i], relativePath, handler, by),
                r, relativePath, handler, by, i + 1)

\* (r *ginEngine) GET / POST / ... and (r *ginRouterGroup) GET / POST / ...
Verb(S, r, method, relativePath, handler, by) ==
    ginHandle([S EXCEPT !.registry[r] = Add(@, relativePath, <<method>>)],
              r, method, relativePath, handler, by)

\* (r *ginEngine) Any and (r *ginRouterGroup) Any
RouterAny(S, r, relativePath, handler, by) ==
    ginAny([S EXCEPT !.registry[r] = Add(@, relativePath, Methods)],
           r, relativePath, handler, by, 1)

\* (r *ginRoutesRouter) GET / POST / ..., on the Router that a method of
\* router r returned
RoutesVerb(S, r, method, relativePath, handler, by) ==
    ginHandle(S, r, method, relativePath, handler, by)

\* (r *ginRoutesRouter) Any
RoutesAny(S, r, relativePath, handler, by) ==
    ginAny(S, r, relativePath, handler, by, 1)

\* the seven checks of expandMethods for path p made against the absolute
\* path of the group
RECURSIVE expandPathAbsolute(_, _, _, _)
expandPathAbsolute(S, r, p, i) ==
    IF i > Len(Methods) THEN S
    ELSE expandPathAbsolute(
             IF ~S.panic.set /\ ~Get(S.registry[r], p, Methods[i])
             THEN Verb(S, r, Methods[i], Base(r) \o p, "MethodNotAllowed", "ExpandMethods")
             ELSE S,
             r, p, i + 1)

\* the seven checks of expandMethods for path p, from the i-th on
RECURSIVE expandPath(_, _, _, _)
expandPath(S, r, p, i) ==
    IF i > Len(Methods) THEN S
    ELSE expandPath(
             IF ~S.panic.set /\ ~Get(S.registry[r], p, Methods[i])
             THEN Verb(S, r, Methods[i], p, "MethodNotAllowed", "ExpandMethods")
             ELSE S,
             r, p, i + 1)

\* the seven checks registering through the wrapped engine, past the
\* recording verb methods
RECURSIVE expandPathUnrecorded(_, _, _, _)
expandPathUnrecorded(S, r, p, i) ==
    IF i > Len(Methods) THEN S
    ELSE expandPathUnrecorded(
             IF ~S.panic.set /\ ~Get(S.registry[r], p, Methods[i])
             THEN ginHandle(S, r, Methods[i], p, "MethodNotAllowed", "ExpandMethods")
             ELSE S,
             r, p, i + 1)

\* expandMethods registering past the recording verb methods
RECURSIVE expandMethodsUnrecorded(_, _, _, _)
expandMethodsUnrecorded(S, r, paths, i) ==
    IF i > Len(paths) THEN S
    ELSE expandMethodsUnrecorded(expandPathUnrecorded(S, r, paths[i], 1), r, paths, i + 1)

\* expandMethods(router, registry): the loop over paths, from the i-th on
RECURSIVE expandMethods(_, _, _, _)
expandMethods(S, r, paths, i) ==
    IF i > Len(paths) THEN S
    ELSE expandMethods(expandPath(S, r, paths[i], 1), r, paths, i + 1)

\* (r *ginEngine) ExpandMethods and (r *ginRouterGroup) expandMethods:
\* the router itself, then each of its groups; order[r] is the order in
\* which registry.Paths() yields the paths of router r
RECURSIVE expandRouter(_, _, _)
RECURSIVE expandGroups(_, _, _, _)
expandRouter(S, r, order) ==
    expandGroups(expandMethods(S, r, order[r], 1), Children(r), order, 1)

expandGroups(S, gs, order, i) ==
    IF i > Len(gs) THEN S
    ELSE expandGroups(expandRouter(S, gs[i], order), gs, order, i + 1)

----------------------------------------------------------------------------
(* Inputs of the callers of the engine *)

\* relative paths of routes: /x, /api/x
RelPaths == {<<"x">>, <<"api", "x">>}

\* relative paths of groups: /api
GroupPaths == {<<"api">>}

\* the verb methods the callers use
RegVerbs == {"GET", "POST"}

\* the handler the callers register
Handlers == {"handler"}

RouterInit ==
    /\ groups = <<>>
    /\ registry = (0 :> NewPathRegistry)
    /\ routes = <<>>
    /\ panic = NoPanic
    /\ direct = (0 :> {})
    /\ rcall = NoCall
    /\ nRoutes = 0

Engine == [registry |-> registry, routes |-> routes, panic |-> panic]

\* the program goes on with the engine in state S
Continue(S) ==
    /\ registry' = S.registry
    /\ routes' = S.routes
    /\ panic' = S.panic

\* Group(relativePath) on the engine or on a group
DoGroup ==
    /\ ~panic.set
    /\ Len(groups) < MaxGroups
    /\ \E r \in Routers, relativePath \in GroupPaths :
        /\ groups' = Append(groups, [parent |-> r, base |-> Base(r) \o relativePath])
        /\ rcall' = NoCall
    /\ registry' = registry @@ ((Len(groups) + 1) :> NewPathRegistry)
    /\ direct' = direct @@ ((Len(groups) + 1) :> {})
    /\ UNCHANGED <<routes, panic, nRoutes, notRouterVars>>

\* GET, POST, ... on the engine or on a group
DoVerb ==
    /\ ~panic.set
    /\ nRoutes < MaxRoutes
    /\ \E r \in Routers, p \in RelPaths, m \in RegVerbs, h \in Handlers :
        LET S == Verb(Engine, r, m, p, h, "caller")
        IN  /\ Continue(S)
            /\ direct' = IF S.panic.set THEN direct
                         ELSE [direct EXCEPT ![r] = @ \cup {[path |-> p, method |-> m, handler |-> h]}]
    /\ rcall' = NoCall
    /\ nRoutes' = nRoutes + 1
    /\ UNCHANGED <<groups, notRouterVars>>

\* Any on the engine or on a group
DoAny ==
    /\ ~panic.set
    /\ nRoutes < MaxRoutes
    /\ \E r \in Routers, p \in RelPaths, h \in Handlers :
        LET S == RouterAny(Engine, r, p, h, "caller")
        IN  /\ Continue(S)
            /\ direct' = IF S.panic.set THEN direct
                         ELSE [direct EXCEPT ![r] = @ \cup
                                  {[path |-> p, method |-> m, handler |-> h] : m \in Range(AnyMethods)}]
    /\ rcall' = NoCall
    /\ nRoutes' = nRoutes + 1
    /\ UNCHANGED <<groups, notRouterVars>>

\* GET, POST, ... on the Router returned by Use or by a verb method of the
\* engine or of a group, as in router.Use(mw).GET(p, h)
DoRoutesVerb ==
    /\ ~panic.set
    /\ nRoutes < MaxRoutes
    /\ \E r \in Routers, p \in RelPaths, m \in RegVerbs, h \in Handlers :
        Continue(RoutesVerb(Engine, r, m, p, h, "caller"))
    /\ rcall' = NoCall
    /\ nRoutes' = nRoutes + 1
    /\ UNCHANGED <<groups, direct, notRouterVars>>

\* Any on the Router returned by Use or by a verb method
DoRoutesAny ==
    /\ ~panic.set
    /\ nRoutes < MaxRoutes
    /\ \E r \in Routers, p \in RelPaths, h \in Handlers :
        Continue(RoutesAny(Engine, r, p, h, "caller"))
    /\ rcall' = NoCall
    /\ nRoutes' = nRoutes + 1
    /\ UNCHANGED <<groups, direct, notRouterVars>>

\* ExpandMethods() on the engine
DoExpandMethods ==
    /\ ~panic.set
    /\ \E order \in [Routers -> UNION {Paths(registry[r]) : r \in Routers}] :
        /\ \A r \in Routers : order[r] \in Paths(registry[r])
        /\ Continue(expandRouter(Engine, 0, order))
    /\ rcall' = [op |-> "ExpandMethods", registry |-> registry, routes |-> routes,
                 after |-> rcall.op]
    /\ UNCHANGED <<groups, direct, nRoutes, notRouterVars>>

NextRouter ==
    \/ DoGroup
    \/ DoVerb
    \/ DoAny
    \/ DoRoutesVerb
    \/ DoRoutesAny
    \/ DoExpandMethods

----------------------------------------------------------------------------
(* ResponseStatusError and Context.HandleError *)

\* http.StatusUnauthorized
StatusUnauthorized == 401

\* http.StatusForbidden
StatusForbidden == 403

\* http.StatusNotFound
StatusNotFound == 404

\* http.StatusConflict
StatusConflict == 409

\* http.StatusInternalServerError
StatusInternalServerError == 500

\* NewResponseStatusError(statusCode, message); text is what Error() returns
NewResponseStatusError(statusCode, message) ==
    [isNil |-> FALSE, StatusCode |-> statusCode, Message |-> message, text |-> message]

NewBadRequestError(message) == NewResponseStatusError(StatusBadRequest, message)

NewUnauthorizedError(message) == NewResponseStatusError(StatusUnauthorized, message)

NewForbiddenError(message) == NewResponseStatusError(StatusForbidden, message)

NewNotFoundError(message) == NewResponseStatusError(StatusNotFound, message)

NewConflictError(message) == NewResponseStatusError(StatusConflict, message)

\* e, ok := err.(*ResponseStatusError)
IsResponseStatusError(err) == "StatusCode" \in DOMAIN err

\* c.JSON(status, obj) of the wrapped engine
JSON(c, status, obj) ==
    [c EXCEPT !.responses = Append(@, [status |-> status, body |-> obj])]

\* (w *contextWrapper) RespondInternalServerErrorE(err)
RespondInternalServerErrorE(c, err) == respondE(c, StatusInternalServerError, err)

\* HandleError answering every error as an internal server error
HandleErrorAlways500(c, err) == RespondInternalServerErrorE(c, err)

\* (w *contextWrapper) HandleError(err)
HandleError(c, err) ==
    IF IsResponseStatusError(err)
    THEN JSON(c, err.StatusCode, [error |-> err.Message])
    ELSE RespondInternalServerErrorE(c, err)

\* messages of the errors handed to HandleError
ErrorMessages == {"", "no such user", "taken"}

\* status codes handed to NewResponseStatusError by the callers
ErrorCodes == {400, 418, 422, 500, 503}

\* the errors handed to HandleError, each with the call that built it
HandledErrors ==
    {[ctor |-> "NewResponseStatusError", code |-> code, message |-> m,
      err |-> NewResponseStatusError(code, m)] : code \in ErrorCodes, m \in ErrorMessages}
    \cup {[ctor |-> "NewBadRequestError", message |-> m, err |-> NewBadRequestError(m)] : m \in ErrorMessages}
    \cup {[ctor |-> "NewUnauthorizedError", message |-> m, err |-> NewUnauthorizedError(m)] : m \in ErrorMessages}
    \cup {[ctor |-> "NewForbiddenError", message |-> m, err |-> NewForbiddenError(m)] : m \in ErrorMessages}
    \cup {[ctor |-> "NewNotFoundError", message |-> m, err |-> NewNotFoundError(m)] : m \in ErrorMessages}
    \cup {[ctor |-> "NewConflictError", message |-> m, err |-> NewConflictError(m)] : m \in ErrorMessages}
    \cup {[ctor |-> "errors.New", message |-> m, err |-> NewError(m)] : m \in ErrorMessages}

ErrorInit ==
    /\ ectx = NewContext
    /\ ecall = NoCall
    /\ nHandled = 0

DoHandleError ==
    /\ nHandled < MaxHandled
    /\ \E e \in HandledErrors :
        /\ ectx' = HandleError(ectx, e.err)
        /\ ecall' = [op |-> "HandleError", built |-> e, pre |-> ectx]
    /\ nHandled' = nHandled + 1
    /\ UNCHANGED notErrorVars

NextError == DoHandleError

----------------------------------------------------------------------------
(* A PathRegistry used on its own *)

\* paths handed to Add and Get: /a, /a/b
RegistryPaths == {<<"a">>, <<"a", "b">>}

\* method lists handed to Add: (), (GET), (GET, POST), (POST, POST)
MethodLists == {<<>>, <<"GET">>, <<"GET", "POST">>, <<"POST", "POST">>}

\* methods handed to Get
RegistryMethods == {"GET", "POST", "PUT"}

RegistryInit ==
    /\ preg = NewPathRegistry
    /\ adds = <<>>
    /\ pres = FALSE
    /\ pcall = NoCall

DoAdd ==
    /\ Len(adds) < MaxAdds
    /\ \E path \in RegistryPaths, methods \in MethodLists :
        /\ preg' = Add(preg, path, methods)
        /\ adds' = Append(adds, [path |-> path, methods |-> methods])
        /\ pcall' = [op |-> "Add", path |-> path, methods |-> methods, pre |-> preg]
    /\ UNCHANGED <<pres, notRegistryVars>>

DoGet ==
    /\ \E path \in RegistryPaths, method \in RegistryMethods :
        /\ pres' = Get(preg, path, method)
        /\ pcall' = [op |-> "Get", path |-> path, method |-> method, pre |-> preg]
    /\ UNCHANGED <<preg, adds, notRegistryVars>>

DoPaths ==
    /\ \E paths \in Paths(preg) :
        /\ pres' = paths
        /\ pcall' = [op |-> "Paths", pre |-> preg]
    /\ UNCHANGED <<preg, adds, notRegistryVars>>

\* expandMethods(router, registry) on a new engine, preg being its registry
DoExpandRegistry ==
    /\ \E paths \in Paths(preg) :
        /\ pres' = expandMethods([registry |-> (0 :> preg), routes |-> <<>>, panic |-> NoPanic],
                                 0, paths, 1)
        /\ pcall' = [op |-> "expandMethods", pre |-> preg]
    /\ UNCHANGED <<preg, adds, notRegistryVars>>

NextRegistry ==
    \/ DoAdd
    \/ DoGet
    \/ DoPaths
    \/ DoExpandRegistry

----------------------------------------------------------------------------
(* Context: typed query values. A string is a sequence of characters. *)

DigitValue ==
    ("0" :> 0) @@ ("1" :> 1) @@ ("2" :> 2) @@ ("3" :> 3) @@ ("4" :> 4) @@
    ("5" :> 5) @@ ("6" :> 6) @@ ("7" :> 7) @@ ("8" :> 8) @@ ("9" :> 9)

\* the number written by the decimal digits of s, acc being that of the
\* digits before the i-th
RECURSIVE DecimalFrom(_, _, _)
DecimalFrom(s, i, acc) ==
    IF i > Len(s) THEN acc
    ELSE DecimalFrom(s, i + 1, acc * 10 + DigitValue[s[i]])

\* strconv.Atoi(s), for an s too short to overflow: an optional sign, then
\* at least one digit and digits only
Atoi(s) ==
    LET signed == Len(s) > 0 /\ s[1] \in {"+", "-"}
        digits == IF signed THEN Tail(s) ELSE s
    IN  IF Len(digits) = 0 \/ \E i \in 1..Len(digits) : digits[i] \notin Digits
        THEN [val |-> 0, err |-> NewError("strconv.Atoi: invalid syntax")]
        ELSE [val |-> IF signed /\ s[1] = "-" THEN 0 - DecimalFrom(digits, 1, 0)
                      ELSE DecimalFrom(digits, 1, 0),
              err |-> nilError]

\* strconv.ParseBool(str)
ParseBool(str) ==
    IF str \in {<<"1">>, <<"t">>, <<"T">>, <<"T", "R", "U", "E">>,
                <<"t", "r", "u", "e">>, <<"T", "r", "u", "e">>}
    THEN [val |-> TRUE, err |-> nilError]
    ELSE IF str \in {<<"0">>, <<"f">>, <<"F">>, <<"F", "A", "L", "S", "E">>,
                     <<"f", "a", "l", "s", "e">>, <<"F", "a", "l", "s", "e">>}
    THEN [val |-> FALSE, err |-> nilError]
    ELSE [val |-> FALSE, err |-> NewError("strconv.ParseBool: invalid syntax")]

HexDigits == Digits \cup {"a", "b", "c", "d", "e", "f", "A", "B", "C", "D", "E", "F"}

\* the characters written %25, %2B, %31 and %74
Unhex == (<<"2", "5">> :> "%") @@ (<<"2", "B">> :> "+") @@
         (<<"3", "1">> :> "1") @@ (<<"7", "4">> :> "t")

\* s has a '%' that is not followed by two hex digits
BadEscape(s) ==
    \E i \in 1..Len(s) :
        /\ s[i] = "%"
        /\ \/ i + 2 > Len(s)
           \/ s[i + 1] \notin HexDigits
           \/ s[i + 2] \notin HexDigits

\* the unescaped text of s from its i-th character on: %XX is its
\* character and '+' a space
RECURSIVE UnescapeFrom(_, _)
UnescapeFrom(s, i) ==
    IF i > Len(s) THEN <<>>
    ELSE IF s[i] = "%" THEN <<Unhex[<<s[i + 1], s[i + 2]>>]>> \o UnescapeFrom(s, i + 3)
    ELSE IF s[i] = "+" THEN <<" ">> \o UnescapeFrom(s, i + 1)
    ELSE <<s[i]>> \o UnescapeFrom(s, i + 1)

\* url.QueryUnescape(s)
QueryUnescape(s) ==
    IF BadEscape(s) THEN [val |-> <<>>, err |-> NewError("invalid URL escape")]
    ELSE [val |-> UnescapeFrom(s, 1), err |-> nilError]

\* w.c.Query(key): the value of the parameter, "" when the request has none
Query(req) == IF req.present THEN req.value ELSE <<>>

\* DefaultIntQuery returning 0 when the value cannot be found
DefaultIntQueryZero(req, defaultValue) ==
    LET val == Query(req)
    IN  IF Len(val) = 0 THEN [val |-> 0, err |-> nilError] ELSE Atoi(val)

\* (w *contextWrapper) DefaultIntQuery(key, defaultValue)
DefaultIntQuery(req, defaultValue) ==
    LET val == Query(req)
    IN  IF Len(val) = 0 THEN [val |-> defaultValue, err |-> nilError] ELSE Atoi(val)

\* (w *contextWrapper) DefaultBoolQuery(key, defaultValue)
DefaultBoolQuery(req, defaultValue) ==
    LET val == Query(req)
    IN  IF Len(val) = 0 THEN [val |-> defaultValue, err |-> nilError] ELSE ParseBool(val)

\* (w *contextWrapper) DefaultStringQuery(key, defaultValue)
DefaultStringQuery(req, defaultValue) ==
    LET val == Query(req)
    IN  IF Len(val) = 0 THEN [val |-> defaultValue, err |-> nilError] ELSE QueryUnescape(val)

\* (w *contextWrapper) IntQuery(key)
IntQuery(req) ==
    LET val == Query(req)
    IN  IF Len(val) = 0 THEN [val |-> 0, err |-> nilError] ELSE Atoi(val)

\* (w *contextWrapper) BoolQuery(key)
BoolQuery(req) ==
    LET val == Query(req)
    IN  IF Len(val) = 0 THEN [val |-> FALSE, err |-> nilError] ELSE ParseBool(val)

\* (w *contextWrapper) StringQuery(key)
StringQuery(req) ==
    LET val == Query(req)
    IN  IF Len(val) = 0 THEN [val |-> <<>>, err |-> nilError] ELSE QueryUnescape(val)

\* values of the parameter: "", 5, 12, -3, +7, +, 1x, 1, 0, t, true, TRUE,
\* yes, a+b, %2B, %31, %74, %, %zz, 5%2
QueryValues ==
    {<<>>, <<"5">>, <<"1", "2">>, <<"-", "3">>, <<"+", "7">>, <<"+">>, <<"1", "x">>,
     <<"1">>, <<"0">>, <<"t">>, <<"t", "r", "u", "e">>, <<"T", "R", "U", "E">>,
     <<"y", "e", "s">>, <<"a", "+", "b">>, <<"%", "2", "B">>, <<"%", "3", "1">>,
     <<"%", "7", "4">>, <<"%">>, <<"%", "z", "z">>, <<"5", "%", "2">>}

\* the parameter of the request: missing, or present with a value
QueryRequests ==
    {[present |-> FALSE, value |-> <<>>]}
    \cup {[present |-> TRUE, value |-> value] : value \in QueryValues}

\* default values handed to the Default* helpers
IntDefaults == {0, 7}

StringDefaults == {<<>>, <<"d">>}

QueryInit ==
    /\ qres = [val |-> 0, err |-> nilError]
    /\ qcall = NoCall

DoDefaultIntQuery ==
    /\ \E req \in QueryRequests, defaultValue \in IntDefaults :
        /\ qres' = DefaultIntQuery(req, defaultValue)
        /\ qcall' = [op |-> "DefaultIntQuery", req |-> req, defaultValue |-> defaultValue]
    /\ UNCHANGED notQueryVars

DoDefaultBoolQuery ==
    /\ \E req \in QueryRequests, defaultValue \in BOOLEAN :
        /\ qres' = DefaultBoolQuery(req, defaultValue)
        /\ qcall' = [op |-> "DefaultBoolQuery", req |-> req, defaultValue |-> defaultValue]
    /\ UNCHANGED notQueryVars

DoDefaultStringQuery ==
    /\ \E req \in QueryRequests, defaultValue \in StringDefaults :
        /\ qres' = DefaultStringQuery(req, defaultValue)
        /\ qcall' = [op |-> "DefaultStringQuery", req |-> req, defaultValue |-> defaultValue]
    /\ UNCHANGED notQueryVars

DoIntQuery ==
    /\ \E req \in QueryRequests :
        /\ qres' = IntQuery(req)
        /\ qcall' = [op |-> "IntQuery", req |-> req]
    /\ UNCHANGED notQueryVars

DoBoolQuery ==
    /\ \E req \in QueryRequests :
        /\ qres' = BoolQuery(req)
        /\ qcall' = [op |-> "BoolQuery", req |-> req]
    /\ UNCHANGED notQueryVars

DoStringQuery ==
    /\ \E req \in QueryRequests :
        /\ qres' = StringQuery(req)
        /\ qcall' = [op |-> "StringQuery", req |-> req]
    /\ UNCHANGED notQueryVars

NextQuery ==
    \/ DoDefaultIntQuery
    \/ DoDefaultBoolQuery
    \/ DoDefaultStringQuery
    \/ DoIntQuery
    \/ DoBoolQuery
    \/ DoStringQuery

----------------------------------------------------------------------------
(* MapMany and MapManyE. A slice is [isNil, elems]; the state of a call is *)
(* L = [res, calls], calls being the elements m was called on so far.      *)

\* a nil slice
NilSlice == [isNil |-> TRUE, elems |-> <<>>]

\* make([]R, 0, len(x)) and what append makes of it
Slice(elems) == [isNil |-> FALSE, elems |-> elems]

\* the loop of MapMany over x, from the i-th element on
RECURSIVE MapManyLoop(_, _, _, _)
MapManyLoop(L, x, m, i) ==
    IF i > Len(x) THEN L
    ELSE MapManyLoop([res   |-> Slice(Append(L.res.elems, m[x[i]])),
                      calls |-> Append(L.calls, x[i])],
                     x, m, i + 1)

\* MapMany(x, m)
MapMany(x, m) ==
    LET L == MapManyLoop([res |-> Slice(<<>>), calls |-> <<>>], x, m, 1)
    IN  [res |-> L.res, err |-> nilError, calls |-> L.calls]

\* the loop of MapManyE going on after a failing element, to return the
\* last error
RECURSIVE MapManyELoopOn(_, _, _, _)
MapManyELoopOn(L, x, m, i) ==
    IF i > Len(x) THEN L
    ELSE LET r == m[x[i]]
             called == Append(L.calls, x[i])
         IN  MapManyELoopOn(
                 IF ~r.err.isNil THEN [res |-> NilSlice, err |-> r.err, calls |-> called]
                 ELSE IF ~L.err.isNil THEN [L EXCEPT !.calls = called]
                 ELSE [res |-> Slice(Append(L.res.elems, r.val)), err |-> nilError,
                       calls |-> called],
                 x, m, i + 1)

\* MapManyE calling m on every element
MapManyEAll(x, m) ==
    MapManyELoopOn([res |-> Slice(<<>>), err |-> nilError, calls |-> <<>>], x, m, 1)

\* the loop of MapManyE over x, from the i-th element on
RECURSIVE MapManyELoop(_, _, _, _)
MapManyELoop(L, x, m, i) ==
    IF i > Len(x) THEN L
    ELSE LET r == m[x[i]]
             called == Append(L.calls, x[i])
         IN  IF ~r.err.isNil THEN [res |-> NilSlice, err |-> r.err, calls |-> called]
             ELSE MapManyELoop([res |-> Slice(Append(L.res.elems, r.val)),
                                err |-> nilError, calls |-> called],
                               x, m, i + 1)

\* MapManyE(x, m)
MapManyE(x, m) ==
    MapManyELoop([res |-> Slice(<<>>), err |-> nilError, calls |-> <<>>], x, m, 1)

\* elements of the slices
Elems == {"a", "b", "c"}

\* the slices handed over: every slice of at most MaxItems elements
MapSlices == UNION {[1..n -> Elems] : n \in 0..MaxItems}

\* what m returns for an element, for MapMany
Mapped == {"A", "B"}

\* what m returns for an element, for MapManyE
Outcomes ==
    {[val |-> "A", err |-> nilError], [val |-> "B", err |-> nilError],
     [val |-> "", err |-> NewError("e1")], [val |-> "", err |-> NewError("e2")]}

MapInit ==
    /\ mres = [res |-> NilSlice, err |-> nilError]
    /\ mcalls = <<>>
    /\ mcall = NoCall

\* the functions keep nothing between two calls: a behaviour is one call
DoMapMany ==
    /\ mcall = NoCall
    /\ \E x \in MapSlices, m \in [Elems -> Mapped] :
        LET out == MapMany(x, m)
        IN  /\ mres' = [res |-> out.res, err |-> out.err]
            /\ mcalls' = out.calls
            /\ mcall' = [op |-> "MapMany", x |-> x, m |-> m]
    /\ UNCHANGED notMapVars

DoMapManyE ==
    /\ mcall = NoCall
    /\ \E x \in MapSlices, m \in [Elems -> Outcomes] :
        LET out == MapManyE(x, m)
        IN  /\ mres' = [res |-> out.res, err |-> out.err]
            /\ mcalls' = out.calls
            /\ mcall' = [op |-> "MapManyE", x |-> x, m |-> m]
    /\ UNCHANGED notMapVars

NextMap ==
    \/ DoMapMany
    \/ DoMapManyE

----------------------------------------------------------------------------
(* Specifications: one per component, all from the same initial state *)

Init ==
    /\ ValidatorInit
    /\ BindInit
    /\ RouterInit
    /\ ErrorInit
    /\ RegistryInit
    /\ QueryInit
    /\ MapInit

SpecValidator == Init /\ [][NextValidator]_vars

SpecBind == Init /\ [][NextBind]_vars

SpecChecks == Init /\ [][NextChecks]_vars

SpecSub == Init /\ [][NextSub]_vars

SpecRouter == Init /\ [][NextRouter]_vars

SpecError == Init /\ [][NextError]_vars

SpecRegistry == Init /\ [][NextRegistry]_vars

SpecQuery == Init /\ [][NextQuery]_vars

SpecMap == Init /\ [][NextMap]_vars

----------------------------------------------------------------------------
(* Claims about the Validator *)

\* strings.Join(msgs, sep)
RECURSIVE Join(_, _)
Join(msgs, sep) ==
    IF Len(msgs) = 0 THEN <<>>
    ELSE IF Len(msgs) = 1 THEN msgs[1]
    ELSE msgs[1] \o sep \o Join(Tail(msgs), sep)

\* C5: Validate() returns a non-nil error if and only if at least one check
\* of the chain failed, whatever the messages are.
C5_ErrorIffSomeCheckFailed ==
    vcall.op = "Validate" => (~vres.isNil <=> Len(v.appended) > 0)

\* C6: the text of the error returned by Validate() is the messages of the
\* failed checks, as provided, in the order of the checks, separated by ", ".
C6_ErrorTextIsJoinedMessages ==
    (vcall.op = "Validate" /\ ~vres.isNil) => vres.text = Join(v.appended, Sep)

\* C7: RequireEnum records nothing when s is one of values or s is empty, and
\* records message once when s is non-empty and equal to none of values.
C7_RequireEnum ==
    vcall.op = "RequireEnum" =>
        IF vcall.s # <<>> /\ vcall.s \notin Range(vcall.values)
        THEN /\ v.appended = Append(vcall.pre.appended, vcall.message)
             /\ v.errors = (IF vcall.pre.errors = <<>> THEN <<>> ELSE vcall.pre.errors \o Sep)
                               \o vcall.message
        ELSE v = vcall.pre

\* C7 witnesses: an empty s accepted although "" is not among the values,
\* after an earlier failure; and a foreign s recorded after an earlier failure.
C7_Witness ==
    /\ vcall.op = "RequireEnum"
    /\ vcall.s = <<>>
    /\ vcall.values # <<>>
    /\ <<>> \notin Range(vcall.values)
    /\ vcall.pre.errors # <<>>
    /\ v = vcall.pre

\* C8: RequireMaxLength and RequireStringMaxLength record nothing when
\* len(s) <= max and record message when len(s) > max.
C8_RequireMaxLength ==
    vcall.op \in {"RequireMaxLength", "RequireStringMaxLength"} =>
        v = IF Len(vcall.s) <= vcall.max THEN vcall.pre
            ELSE append(vcall.pre, vcall.message)

\* seq starts with pre
IsPrefix(pre, seq) ==
    /\ Len(pre) <= Len(seq)
    /\ SubSeq(seq, 1, Len(pre)) = pre

\* the validator the replacement of a deprecated method returns for the
\* inputs and the prior state of the last call
Replacement ==
    CASE vcall.op = "RequireStringNotEmpty" ->
             RequireNotEmpty(vcall.pre, vcall.s, vcall.message)
      [] vcall.op = "RequireStringMinLength" ->
             RequireMinLength(vcall.pre, vcall.s, vcall.min, vcall.message)
      [] vcall.op = "RequireStringMaxLength" ->
             RequireMaxLength(vcall.pre, vcall.s, vcall.max, vcall.message)
      [] vcall.op = "RequireStringSliceMinLength" ->
             RequireSliceMinLength(vcall.pre, vcall.s, vcall.min, vcall.message)
      [] vcall.op = "RequireStringSliceNotEmpty" ->
             RequireSliceNotEmpty(vcall.pre, vcall.s, vcall.message)
      [] vcall.op = "RequireStringSliceEnum" ->
             RequireSliceEnum(vcall.pre, vcall.s, vcall.message, vcall.values)

DeprecatedOps ==
    {"RequireStringNotEmpty", "RequireStringMinLength", "RequireStringMaxLength",
     "RequireStringSliceMinLength", "RequireStringSliceNotEmpty", "RequireStringSliceEnum"}

\* C13: each deprecated RequireString* method leaves the validator in the
\* state its replacement leaves it in, with the same Validate() result, for
\* every input and every prior state.
C13_DeprecatedAsReplacement ==
    vcall.op \in DeprecatedOps =>
        /\ v = Replacement
        /\ Validate(v) = Validate(Replacement)

\* C13 witness: RequireStringSliceMinLength on a one-element slice with a
\* minimum of 2, recorded after an earlier failure.
C13_Witness ==
    /\ vcall.op = "RequireStringSliceMinLength"
    /\ Len(vcall.s) = 1
    /\ vcall.min = 2
    /\ vcall.pre.errors # <<>>
    /\ v = append(vcall.pre, vcall.message)

\* C17: recorded failures are never lost. A Validate() after a failure with
\* a non-empty message is non-nil; Validate() leaves the validator as it
\* was, and a Validate() right after a Validate() returns the same result;
\* every check and every V call keeps what was recorded before it.
C17_FailuresNeverLost ==
    /\ vcall.op = "Validate" =>
           /\ v = vcall.pre
           /\ (\E i \in 1..Len(v.appended) : v.appended[i] # <<>>) => ~vres.isNil
           /\ vcall.after = "Validate" => vres = vcall.prev
    /\ vcall.op \notin {"new", "Validate"} =>
           /\ IsPrefix(vcall.pre.appended, v.appended)
           /\ IsPrefix(vcall.pre.errors, v.errors)

\* C17 witness: a second Validate() in a row returning the error of the
\* first, on a validator whose non-empty failure was followed by two more
\* recorded checks.
C17_Witness ==
    /\ vcall.op = "Validate"
    /\ vcall.after = "Validate"
    /\ Len(v.appended) = 3
    /\ v.appended[1] # <<>>
    /\ ~vres.isNil
    /\ vres = vcall.prev

\* C19: RequireMinLength records m iff len(s) < min, RequireNotEmpty iff s
\* is empty, RequireStringLengthBetween iff not (min <= len(s) < max), the
\* empty string included; RequireMatchesRegex accepts every empty string.
C19_LengthChecks ==
    /\ vcall.op = "RequireMinLength" =>
           v = IF Len(vcall.s) < vcall.min THEN append(vcall.pre, vcall.message)
               ELSE vcall.pre
    /\ vcall.op = "RequireNotEmpty" =>
           v = IF vcall.s = <<>> THEN append(vcall.pre, vcall.message)
               ELSE vcall.pre
    /\ vcall.op = "RequireStringLengthBetween" =>
           v = IF ~(vcall.min <= Len(vcall.s) /\ Len(vcall.s) < vcall.max)
               THEN append(vcall.pre, vcall.message)
               ELSE vcall.pre
    /\ (vcall.op = "RequireMatchesRegex" /\ vcall.s = <<>>) => v = vcall.pre

\* C19 witness: RequireMinLength("", 1, "m") records "m".
C19_Witness ==
    /\ vcall.op = "RequireMinLength"
    /\ vcall.s = <<>>
    /\ vcall.min = 1
    /\ vcall.message = <<"m">>
    /\ v.appended = Append(vcall.pre.appended, <<"m">>)

\* C20: RequireSliceEnum records message exactly once when some element of
\* s is not in values and nothing otherwise; RequireSliceNotEmpty(s, m) is
\* RequireSliceMinLength(s, 1, m).
C20_SliceEnum ==
    /\ vcall.op = "RequireSliceEnum" =>
           v = IF \E i \in 1..Len(vcall.s) : vcall.s[i] \notin Range(vcall.values)
               THEN append(vcall.pre, vcall.message)
               ELSE vcall.pre
    /\ vcall.op = "RequireSliceNotEmpty" =>
           v = RequireSliceMinLength(vcall.pre, vcall.s, 1, vcall.message)

\* C20 witness: a slice with two elements outside values records message once.
C20_Witness ==
    /\ vcall.op = "RequireSliceEnum"
    /\ vcall.s = << <<"c">>, <<"a">>, <<"c">> >>
    /\ vcall.values = << <<"a">> >>
    /\ vcall.message = <<"m">>
    /\ v.appended = Append(vcall.pre.appended, <<"m">>)

\* the messages "key[i]: e" of the items from index i on whose Validate()
\* returns an error e
RECURSIVE SubMessages(_, _, _)
SubMessages(key, items, i) ==
    IF i >= Len(items) THEN <<>>
    ELSE (IF items[i + 1].isNil THEN <<>>
          ELSE <<key \o <<"[">> \o <<DigitChars[i + 1]>> \o <<"]", ":", " ">>
                     \o items[i + 1].text>>)
         \o SubMessages(key, items, i + 1)

\* val after the messages of msgs, from the i-th on, were appended in order
RECURSIVE AppendAll(_, _, _)
AppendAll(val, msgs, i) ==
    IF i > Len(msgs) THEN val
    ELSE AppendAll(append(val, msgs[i]), msgs, i + 1)

\* ValidateSub appends one message "key[i]: e" per failing item, in
\* increasing order of i, and nothing for the items that validate
ValidateSubAppends ==
    vcall.op = "ValidateSub" =>
        /\ v.appended = vcall.pre.appended \o SubMessages(vcall.key, vcall.items, 0)
        /\ v = AppendAll(vcall.pre, SubMessages(vcall.key, vcall.items, 0), 1)

\* C21: ValidateSub appends one message "key[i]: e" per failing item in
\* increasing order of i, nothing for the others, and validates every
\* item; the Validate() of v is then nil iff v had no failure before and
\* every item validates.
C21_ValidateSub ==
    vcall.op = "ValidateSub" =>
        /\ ValidateSubAppends
        /\ Validate(v).isNil <=>
               /\ Len(vcall.pre.appended) = 0
               /\ \A i \in 1..Len(vcall.items) : vcall.items[i].isNil

----------------------------------------------------------------------------
(* Claims about the bind calls *)

BindOps == {"MayBindJSON", "MayBindJSONV", "MustBindJSON", "MustBindJSONV"}

\* the response the last bind call wrote, when it wrote exactly one
Wrote(status) ==
    /\ Len(ctx.responses) = Len(bcall.pre.responses) + 1
    /\ SubSeq(ctx.responses, 1, Len(bcall.pre.responses)) = bcall.pre.responses
    /\ ctx.responses[Len(ctx.responses)].status = status

\* C9: whenever a bind call binds a non-empty body into a Validatable object
\* and returns true, the object's Validate() was invoked and returned nil.
C9_ValidatableIsValidated ==
    (bcall.op \in BindOps /\ bcall.body = "valid" /\ bcall.obj.validatable /\ bret) =>
        /\ ctx.validateCalls > bcall.pre.validateCalls
        /\ bcall.obj.err.isNil

\* C10: MustBindJSON and MustBindJSONV return false and answer 400 with a
\* JSON error body when the body is missing ("request body is missing"),
\* cannot be bound, the supplied validator fails, or the object's Validate()
\* fails; in every other case they return true.
C10_MustBind ==
    bcall.op \in {"MustBindJSON", "MustBindJSONV"} =>
        LET missing   == bcall.body = "empty"
            unbound   == bcall.body = "malformed"
            rejected  == bcall.validator.kind = "func" /\ ~bcall.validator.err.isNil
            invalid   == bcall.obj.validatable /\ ~bcall.obj.err.isNil
            failure   == missing \/ unbound \/ rejected \/ invalid
        IN  /\ bret = ~failure
            /\ failure => Wrote(StatusBadRequest)
            /\ missing =>
                   ctx.responses[Len(ctx.responses)].body = [error |-> "request body is missing"]

\* C10 witness: MustBindJSONV bound a body, the supplied validator passed,
\* and the bound object's own Validate() failed: 400 and false.
C10_Witness ==
    /\ bcall.op = "MustBindJSONV"
    /\ bcall.body = "valid"
    /\ bcall.validator.err.isNil
    /\ bcall.obj.validatable
    /\ ~bcall.obj.err.isNil
    /\ ~bret
    /\ Wrote(StatusBadRequest)

\* the supplied validator of the last bind call returns an error: the
\* caller's function, or for MayBindJSON / MustBindJSON the Validate() of a
\* Validatable object
ValidatorFails ==
    IF bcall.validator.kind = "func" THEN ~bcall.validator.err.isNil
    ELSE bcall.obj.validatable /\ ~bcall.obj.err.isNil

C18_OneResponseIffFalse ==
    bcall.op \in BindOps =>
        IF bret THEN ctx.responses = bcall.pre.responses
        ELSE /\ Len(ctx.responses) = Len(bcall.pre.responses) + 1
             /\ SubSeq(ctx.responses, 1, Len(bcall.pre.responses)) = bcall.pre.responses

\* C18 witness: a bind call that returned false after one that returned
\* true: one response in all.
C18_Witness ==
    /\ bcall.op \in BindOps
    /\ nBinds = 2
    /\ ~bret
    /\ bcall.pre.responses = <<>>
    /\ Len(ctx.responses) = 1

----------------------------------------------------------------------------
(* Claims about ExpandMethods *)

\* GET, POST, PUT, DELETE, PATCH, OPTIONS, HEAD
SevenVerbs == Range(Methods)

\* the paths registered directly on router r with at least one of the verbs
DirectPaths(r) == {d.path : d \in {e \in direct[r] : e.method \in SevenVerbs}}

\* the paths on which the wrapped engine has at least one handler
HandledPaths(rt) == {key[1] : key \in DOMAIN rt}

\* ExpandMethods was the last call, and it returned
Expanded == rcall.op = "ExpandMethods" /\ ~panic.set

\* C1: after ExpandMethods returns, every path registered directly on the
\* engine or on a group with one of the seven verbs has, in that router, a
\* handler for each of the seven: the registered one where one was
\* registered, MethodNotAllowed otherwise.
C1_DirectPathsExpanded ==
    Expanded =>
        \A r \in Routers : \A p \in DirectPaths(r) : \A m \in SevenVerbs :
            LET key == <<Base(r) \o p, m>>
                registered == {d \in direct[r] : d.path = p /\ d.method = m}
            IN  /\ key \in DOMAIN routes
                /\ IF registered = {}
                   THEN routes[key] = "MethodNotAllowed"
                   ELSE routes[key] \in {d.handler : d \in registered}

\* C1 witness: ExpandMethods returned with a path of a nested group that was
\* registered for GET only: its handler on GET, MethodNotAllowed on HEAD.
C1_Witness ==
    /\ Expanded
    /\ \E r \in Routers \ {0} : \E p \in DirectPaths(r) :
        /\ groups[r].parent # 0
        /\ {d.method : d \in {e \in direct[r] : e.path = p}} = {"GET"}
        /\ routes[<<Base(r) \o p, "GET">>] = "handler"
        /\ routes[<<Base(r) \o p, "HEAD">>] = "MethodNotAllowed"

\* C2: after ExpandMethods returns, every route that has a handler, however
\* it was registered, has a handler on each of the seven verbs (405 on those
\* that had none).
C2_EveryRouteExpanded ==
    Expanded =>
        \A path \in HandledPaths(routes) : \A m \in SevenVerbs :
            <<path, m>> \in DOMAIN routes

\* C3: ExpandMethods never registers a handler on a (path, verb) of the
\* wrapped engine that already has one.
C3_NoSecondHandler ==
    ~(panic.set /\ panic.by = "ExpandMethods")

\* C4: ExpandMethods adds no handler on a path that had none, and leaves the
\* set of paths of every registry as it was.
C4_NoNewPaths ==
    rcall.op = "ExpandMethods" =>
        /\ HandledPaths(routes) = HandledPaths(rcall.routes)
        /\ \A r \in Routers : DOMAIN registry[r] = DOMAIN rcall.registry[r]

\* C4 witness: ExpandMethods returned after registering handlers of a group,
\* and some path still has no handler.
C4_Witness ==
    /\ Expanded
    /\ \E r \in Routers \ {0} : \E p \in DOMAIN registry[r] :
           <<Base(r) \o p, "PUT">> \in DOMAIN routes \ DOMAIN rcall.routes
    /\ \E r \in Routers, p \in RelPaths : Base(r) \o p \notin HandledPaths(routes)

\* C16: ExpandMethods is idempotent. After it returns, the registry of the
\* engine and of every group holds all seven verbs for each of its paths,
\* and an ExpandMethods call right after it registers no handler at all.
C16_Idempotent ==
    Expanded =>
        /\ \A r \in Routers : \A p \in DOMAIN registry[r] : registry[r][p] = SevenVerbs
        /\ rcall.after = "ExpandMethods" =>
               /\ routes = rcall.routes
               /\ registry = rcall.registry

\* C16 witness: a second ExpandMethods in a row returned, on an engine with
\* a group, where the first had registered MethodNotAllowed handlers.
C16_Witness ==
    /\ Expanded
    /\ rcall.after = "ExpandMethods"
    /\ Len(groups) > 0
    /\ \E key \in DOMAIN routes : routes[key] = "MethodNotAllowed"
    /\ \E r \in Routers \ {0} : registry[r] # NewPathRegistry

----------------------------------------------------------------------------
(* Claims about HandleError *)

\* the status each constructor of a ResponseStatusError stands for
CtorStatus(built) ==
    CASE built.ctor = "NewResponseStatusError" -> built.code
      [] built.ctor = "NewBadRequestError"     -> 400
      [] built.ctor = "NewUnauthorizedError"   -> 401
      [] built.ctor = "NewForbiddenError"      -> 403
      [] built.ctor = "NewNotFoundError"       -> 404
      [] built.ctor = "NewConflictError"       -> 409
      [] OTHER                                 -> 500

\* C12: HandleError answers a ResponseStatusError with its status code and
\* the JSON body {"error": message}, and every other error with status 500.
C12_HandleError ==
    ecall.op = "HandleError" =>
        /\ Len(ectx.responses) = Len(ecall.pre.responses) + 1
        /\ LET response == ectx.responses[Len(ectx.responses)]
           IN  /\ response.status = CtorStatus(ecall.built)
               /\ ecall.built.ctor # "errors.New" =>
                      response.body = [error |-> ecall.built.message]

\* C12 witness: a NewNotFoundError answered 404 with its message, after an
\* error that is no ResponseStatusError was answered 500.
C12_Witness ==
    /\ ecall.op = "HandleError"
    /\ ecall.built.ctor = "NewNotFoundError"
    /\ ectx.responses =
           <<[status |-> 500, body |-> [error |-> "taken"]],
             [status |-> 404, body |-> [error |-> "no such user"]]>>

----------------------------------------------------------------------------
(* Claims about the PathRegistry *)

\* some earlier Add(path, ...) listed method among its methods
Listed(path, method) ==
    \E i \in 1..Len(adds) : adds[i].path = path /\ method \in Range(adds[i].methods)

\* C14: after any sequence of Add calls on a new PathRegistry, Get(path,
\* method) is true iff some earlier Add(path, ...) listed method; Get on a
\* path never added is false and creates no entry for it.
C14_GetIffAdded ==
    pcall.op = "Get" =>
        /\ pres <=> Listed(pcall.path, pcall.method)
        /\ preg = pcall.pre
        /\ (\A i \in 1..Len(adds) : adds[i].path # pcall.path) =>
               (~pres /\ pcall.path \notin DOMAIN preg)

\* C14 witness: Get finds the method of the first of two Add calls on the
\* same path whose second call listed another method.
C14_Witness ==
    /\ pcall.op = "Get"
    /\ Len(adds) >= 2
    /\ adds[1].path = pcall.path
    /\ adds[2].path = pcall.path
    /\ pcall.method \in Range(adds[1].methods)
    /\ pcall.method \notin Range(adds[2].methods)
    /\ pres

\* the paths passed to Add so far
AddedPaths == {adds[i].path : i \in 1..Len(adds)}

\* the registry after the Add calls of calls in the order order, from the
\* i-th on, on reg
RECURSIVE AddInOrder(_, _, _, _)
AddInOrder(reg, calls, order, i) ==
    IF i > Len(order) THEN reg
    ELSE AddInOrder(Add(reg, calls[order[i]].path, calls[order[i]].methods),
                    calls, order, i + 1)

\* reg and other give the same Get and Paths results, up to the order of Paths
SameResults(reg, other) ==
    /\ \A path \in RegistryPaths, method \in RegistryMethods :
           Get(reg, path, method) = Get(other, path, method)
    /\ {Range(paths) : paths \in Paths(reg)} = {Range(paths) : paths \in Paths(other)}
    /\ \A paths \in Paths(reg) : Len(paths) = Cardinality(Range(paths))

\* C22: Paths() returns every path passed to Add, each once, and no other,
\* a path added with an empty method list included; on such a path Get is
\* false and expandMethods registers MethodNotAllowed for the seven verbs;
\* repeating an Add or permuting the Adds yields the same Get and Paths
\* results up to the order of Paths.
C22_PathsAndAdd ==
    /\ pcall.op = "Paths" =>
           /\ Range(pres) = AddedPaths
           /\ Len(pres) = Cardinality(AddedPaths)
    /\ pcall.op = "expandMethods" =>
           \A path \in AddedPaths :
               (\A i \in 1..Len(adds) : adds[i].path = path => adds[i].methods = <<>>) =>
                   /\ \A method \in RegistryMethods : ~Get(pcall.pre, path, method)
                   /\ \A method \in SevenVerbs :
                          /\ <<path, method>> \in DOMAIN pres.routes
                          /\ pres.routes[<<path, method>>] = "MethodNotAllowed"
    /\ pcall.op = "Add" =>
           /\ \A i \in 1..Len(adds) :
                  SameResults(preg, Add(preg, adds[i].path, adds[i].methods))
           /\ \A order \in Orders(1..Len(adds)) :
                  SameResults(preg, AddInOrder(NewPathRegistry, adds, order, 1))

\* C22 witness: Paths() after three Add calls, one of them with an empty
\* method list on a path of its own and two on another path, returns the
\* two paths.
C22_Witness ==
    /\ pcall.op = "Paths"
    /\ Len(adds) = 3
    /\ Len(pres) = 2
    /\ \E i, j, k \in 1..3 :
           /\ adds[i].methods = <<>>
           /\ adds[j].path # adds[i].path
           /\ adds[k].path = adds[j].path
           /\ j # k
           /\ adds[j].methods # adds[k].methods
           /\ adds[i].path \in Range(pres)

----------------------------------------------------------------------------
(* Claims about the typed query values *)

\* the query value of the last call cannot be found: the parameter is
\* missing, or present with an empty value
NotFound == ~qcall.req.present \/ qcall.req.value = <<>>

\* the value of the parameter as the type of the last call's helper
Parsed ==
    CASE qcall.op \in {"IntQuery", "DefaultIntQuery"} -> Atoi(qcall.req.value)
      [] qcall.op \in {"BoolQuery", "DefaultBoolQuery"} -> ParseBool(qcall.req.value)
      [] qcall.op \in {"StringQuery", "DefaultStringQuery"} -> QueryUnescape(qcall.req.value)

\* the value of the parameter is a value of the type of the last call's helper
Parsable ==
    LET s == qcall.req.value
    IN  CASE qcall.op \in {"IntQuery", "DefaultIntQuery"} ->
                 \/ Len(s) > 0 /\ \A i \in 1..Len(s) : s[i] \in Digits
                 \/ Len(s) > 1 /\ s[1] \in {"+", "-"} /\ \A i \in 2..Len(s) : s[i] \in Digits
          [] qcall.op \in {"BoolQuery", "DefaultBoolQuery"} ->
                 s \in {<<"1">>, <<"0">>, <<"t">>, <<"t", "r", "u", "e">>, <<"T", "R", "U", "E">>}
          [] qcall.op \in {"StringQuery", "DefaultStringQuery"} ->
                 s \in {<<"5">>, <<"1", "2">>, <<"-", "3">>, <<"+", "7">>, <<"+">>,
                        <<"1", "x">>, <<"1">>, <<"0">>, <<"t">>, <<"t", "r", "u", "e">>,
                        <<"T", "R", "U", "E">>, <<"y", "e", "s">>, <<"a", "+", "b">>,
                        <<"%", "2", "B">>, <<"%", "3", "1">>, <<"%", "7", "4">>}

\* the default of the last call: the one handed over, or the zero value
DefaultOf ==
    CASE qcall.op \in {"DefaultIntQuery", "DefaultBoolQuery", "DefaultStringQuery"} ->
             qcall.defaultValue
      [] qcall.op = "IntQuery" -> 0
      [] qcall.op = "BoolQuery" -> FALSE
      [] qcall.op = "StringQuery" -> <<>>

\* C15: the Default* helpers return (defaultValue, nil) when the query value
\* cannot be found, a missing parameter and one with an empty value alike,
\* and otherwise the parsed value; an unparsable value yields a non-nil
\* error; IntQuery, BoolQuery and StringQuery do so with 0, false and "".
C15_QueryDefaults ==
    qcall.op # "new" =>
        /\ IF NotFound THEN qres = [val |-> DefaultOf, err |-> nilError]
           ELSE /\ qres = Parsed
                /\ qres.err.isNil <=> Parsable
        /\ qcall.op = "IntQuery" => qres = DefaultIntQuery(qcall.req, 0)
        /\ qcall.op = "BoolQuery" => qres = DefaultBoolQuery(qcall.req, FALSE)
        /\ qcall.op = "StringQuery" => qres = DefaultStringQuery(qcall.req, <<>>)

\* C15 witness: DefaultIntQuery with default 7 on a parameter that is
\* present with an empty value returns (7, nil).
C15_Witness ==
    /\ qcall.op = "DefaultIntQuery"
    /\ qcall.req.present
    /\ qcall.req.value = <<>>
    /\ qcall.defaultValue = 7
    /\ qres = [val |-> 7, err |-> nilError]

----------------------------------------------------------------------------
(* Claims about MapMany and MapManyE *)

\* the indexes of the elements of the last call's x on which m fails
Failing == {i \in 1..Len(mcall.x) : ~mcall.m[mcall.x[i]].err.isNil}

\* the least index of Failing
FirstFailing == CHOOSE i \in Failing : \A j \in Failing : i <= j

\* C23: MapMany returns a slice as long as x whose i-th element is m(x[i]),
\* calling m once per element in index order; MapManyE does the same when
\* no call fails, and otherwise returns (nil, err) with the error of the
\* first failing element, m not being called on any later element.
C23_MapMany ==
    /\ mcall.op = "MapMany" =>
           /\ ~mres.res.isNil
           /\ Len(mres.res.elems) = Len(mcall.x)
           /\ \A i \in 1..Len(mcall.x) : mres.res.elems[i] = mcall.m[mcall.x[i]]
           /\ mcalls = mcall.x
    /\ mcall.op = "MapManyE" =>
           IF Failing = {}
           THEN /\ mres.err.isNil
                /\ ~mres.res.isNil
                /\ Len(mres.res.elems) = Len(mcall.x)
                /\ \A i \in 1..Len(mcall.x) : mres.res.elems[i] = mcall.m[mcall.x[i]].val
                /\ mcalls = mcall.x
           ELSE /\ mres.res = NilSlice
                /\ mres.err = mcall.m[mcall.x[FirstFailing]].err
                /\ mcalls = SubSeq(mcall.x, 1, FirstFailing)

\* C23 witness: MapManyE on three elements whose second and third fail
\* with different errors returns nil and the error of the second, after two
\* calls of m.
C23_Witness ==
    /\ mcall.op = "MapManyE"
    /\ Len(mcall.x) = 3
    /\ Failing = {2, 3}
    /\ mcall.m[mcall.x[2]].err # mcall.m[mcall.x[3]].err
    /\ mres.res = NilSlice
    /\ mres.err = mcall.m[mcall.x[2]].err
    /\ Len(mcalls) = 2

====
